---------------------------- MODULE Spec2Model ----------------------------
(***************************************************************************)
(* The IAVL commit store (package iavl, type Store): a key/value store     *)
(* over a versioned authenticated tree, with commit, historical handles,   *)
(* pruning and the ABCI query dispatcher.                                  *)
(*                                                                         *)
(* A Go []byte is a record [isNil, data]: the nil slice and the empty      *)
(* non-nil slice both have length 0 and differ in isNil.  The Tree         *)
(* capability (tree.go and the IAVL library) is modelled from its contract:*)
(* a sorted list of leaves for the working version plus one frozen leaf    *)
(* list per saved version.  The Store methods are modelled from store.go.  *)
(***************************************************************************)
EXTENDS Integers, Sequences, FiniteSets, TLC

\* ------------------------------------------------------------------ bounds

\* Commit is not called any more once this many versions were saved.
MaxCommits == 2

\* Successful commits of the run that replays its calls on a second store.
MaxReplayCommits == 3

\* Scaled-down types.MaxKeyLength: a key longer than this fails AssertValidKey.
MaxKeyLength == 2

\* ------------------------------------------------------------- byte slices

NilBytes == [isNil |-> TRUE, data |-> <<>>]

Bytes(d) == [isNil |-> FALSE, data |-> d]

\* The valid keys and the values a caller stores.
KeyData == {<<1>>, <<1, 2>>}

ValData == {<<7>>}

\* Keys a caller may pass: nil, empty, valid, and one over the length bound.
KeyInputs == {NilBytes} \cup {Bytes(d) : d \in KeyData \cup {<<>>, <<1, 2, 1>>}}

ValInputs == {NilBytes} \cup {Bytes(d) : d \in ValData}

\* bytes.Compare(a, b) < 0
RECURSIVE BytesLess(_, _)
BytesLess(a, b) ==
    IF a = <<>> THEN b # <<>>
    ELSE IF b = <<>> THEN FALSE
    ELSE IF Head(a) # Head(b) THEN Head(a) < Head(b)
    ELSE BytesLess(Tail(a), Tail(b))

\* ------------------------------------------------------------------ leaves

\* Position of key data k in a sorted leaf list, 0 when it has no leaf.
LeafIndex(leaves, k) ==
    IF \E i \in 1..Len(leaves) : leaves[i].key = k
    THEN CHOOSE i \in 1..Len(leaves) : leaves[i].key = k
    ELSE 0

LeafInsert(leaves, k, v) ==
    LET idx == LeafIndex(leaves, k)
        n == Cardinality({i \in 1..Len(leaves) : BytesLess(leaves[i].key, k)})
    IN  IF idx > 0
        THEN [leaves EXCEPT ![idx] = [key |-> k, value |-> v]]
        ELSE SubSeq(leaves, 1, n) \o <<[key |-> k, value |-> v]>>
             \o SubSeq(leaves, n + 1, Len(leaves))

LeafRemove(leaves, k) ==
    LET Keep(l) == l.key # k IN SelectSeq(leaves, Keep)

\* Length-prefixed encoding of a list of pairs (kv.Pairs.Marshal, and the
\* preimage of the root digest).
RECURSIVE EncodePairs(_)
EncodePairs(leaves) ==
    IF leaves = <<>> THEN <<>>
    ELSE <<Len(Head(leaves).key)>> \o Head(leaves).key
         \o <<Len(Head(leaves).value)>> \o Head(leaves).value
         \o EncodePairs(Tail(leaves))

\* Root hash of a leaf list: nil for the empty tree, else a collision-free
\* digest of the ordered leaves.
RootHash(leaves) ==
    IF leaves = <<>> THEN NilBytes ELSE Bytes(EncodePairs(leaves))

\* -------------------------------------------------------------------- Tree
\* A tree is [kind, leaves, version, initialVersion, versions]: kind is
\* "mutable" (iavl.MutableTree) or "immutable" (immutableTree wrapping an
\* iavl.ImmutableTree); versions maps each saved version to its leaves.

NoVersions == [v \in {} |-> <<>>]

NewMutableTree ==
    [kind |-> "mutable", leaves |-> <<>>, version |-> 0,
     initialVersion |-> 0, versions |-> NoVersions]

ImmutableTreeOf(leaves, version) ==
    [kind |-> "immutable", leaves |-> leaves, version |-> version,
     initialVersion |-> 0, versions |-> NoVersions]

\* &iavl.ImmutableTree{}
EmptyImmutableTree == ImmutableTreeOf(<<>>, 0)

Tree_Version(t) == t.version

Tree_VersionExists(t, version) ==
    IF t.kind = "immutable" THEN t.version = version
    ELSE version \in DOMAIN t.versions

Tree_Get(t, key) ==
    LET idx == LeafIndex(t.leaves, key.data)
    IN  IF idx = 0 THEN NilBytes ELSE Bytes(t.leaves[idx].value)

Tree_Has(t, key) == LeafIndex(t.leaves, key.data) # 0

\* The hash of the latest saved version (nil before the first save); for an
\* immutable tree, its root hash.
Tree_Hash(t) ==
    IF t.kind = "immutable" THEN RootHash(t.leaves)
    ELSE IF t.version > 0 THEN RootHash(t.versions[t.version])
    ELSE NilBytes

\* Mutations return [panic, tree]; an immutable tree panics on each of them.
Tree_Set(t, key, value) ==
    IF t.kind = "immutable" THEN [panic |-> TRUE, tree |-> t]
    ELSE [panic |-> FALSE,
          tree |-> [t EXCEPT !.leaves = LeafInsert(t.leaves, key.data, value.data)]]

Tree_Remove(t, key) ==
    IF t.kind = "immutable" THEN [panic |-> TRUE, tree |-> t]
    ELSE [panic |-> FALSE,
          tree |-> [t EXCEPT !.leaves = LeafRemove(t.leaves, key.data)]]

\* Version the next save gets: version + 1, or the configured initial
\* version for the first save.
NextVersion(t) ==
    IF t.version = 0 /\ t.initialVersion > 0 THEN t.initialVersion
    ELSE t.version + 1

\* saveOk = FALSE is a failure of the underlying persistence: an error and
\* an unchanged tree.
Tree_SaveVersion(t, saveOk) ==
    IF t.kind = "immutable"
    THEN [panic |-> TRUE, err |-> FALSE, hash |-> NilBytes, version |-> 0, tree |-> t]
    ELSE IF ~saveOk
    THEN [panic |-> FALSE, err |-> TRUE, hash |-> NilBytes, version |-> 0, tree |-> t]
    ELSE LET v == NextVersion(t)
         IN  [panic |-> FALSE, err |-> FALSE, hash |-> RootHash(t.leaves),
              version |-> v,
              tree |-> [t EXCEPT !.version = v,
                                 !.versions = [w \in DOMAIN t.versions \cup {v} |->
                                     IF w = v THEN t.leaves ELSE t.versions[w]]]]

\* [err, itree]
Tree_GetImmutable(t, version) ==
    IF t.kind = "immutable"
    THEN IF t.version # version
         THEN [err |-> TRUE, itree |-> EmptyImmutableTree]
         ELSE [err |-> FALSE, itree |-> t]
    ELSE IF version \notin DOMAIN t.versions
         THEN [err |-> TRUE, itree |-> EmptyImmutableTree]
         ELSE [err |-> FALSE, itree |-> ImmutableTreeOf(t.versions[version], version)]

Tree_GetVersioned(t, key, version) ==
    IF Tree_VersionExists(t, version)
    THEN Tree_Get(Tree_GetImmutable(t, version).itree, key)
    ELSE NilBytes

\* A version of a batch is valid when it is saved and is not the latest.
ValidToDelete(t, version) ==
    version \in DOMAIN t.versions /\ version # t.version

\* One atomic batch: [panic, err, tree]; any invalid version fails it whole.
Tree_DeleteVersions(t, versions) ==
    IF t.kind = "immutable" THEN [panic |-> TRUE, err |-> FALSE, tree |-> t]
    ELSE IF \E v \in versions : ~ValidToDelete(t, v)
    THEN [panic |-> FALSE, err |-> TRUE, tree |-> t]
    ELSE [panic |-> FALSE, err |-> FALSE,
          tree |-> [t EXCEPT !.versions =
                       [w \in DOMAIN t.versions \ versions |-> t.versions[w]]]]

Tree_SetInitialVersion(t, version) ==
    IF t.kind = "immutable" THEN [panic |-> TRUE, tree |-> t]
    ELSE [panic |-> FALSE, tree |-> [t EXCEPT !.initialVersion = version]]


\* Leaves with start <= key < end, ascending or descending; a nil bound is
\* open.
Tree_Iterator(t, start, end, ascending) ==
    LET InRange(l) == /\ (start.isNil \/ ~BytesLess(l.key, start.data))
                      /\ (end.isNil \/ BytesLess(l.key, end.data))
        asc == SelectSeq(t.leaves, InRange)
    IN  IF ascending THEN asc
        ELSE [i \in 1..Len(asc) |-> asc[Len(asc) + 1 - i]]

\* ICS23 commitment proofs of an immutable tree: [err, proof].
NoProof == [type |-> "none", key |-> NilBytes, value |-> NilBytes, root |-> NilBytes]

Tree_GetMembershipProof(itree, key) ==
    IF ~Tree_Has(itree, key) THEN [err |-> TRUE, proof |-> NoProof]
    ELSE [err |-> FALSE,
          proof |-> [type |-> "exist", key |-> key,
                     value |-> Tree_Get(itree, key), root |-> Tree_Hash(itree)]]

Tree_GetNonMembershipProof(itree, key) ==
    IF Tree_Has(itree, key) THEN [err |-> TRUE, proof |-> NoProof]
    ELSE [err |-> FALSE,
          proof |-> [type |-> "nonexist", key |-> key,
                     value |-> NilBytes, root |-> Tree_Hash(itree)]]

\* Export and import of a tree as a stream of node records [key, value,
\* height], depth-first in post-order: a leaf has height 0 and its value, an
\* inner node has a nil value and follows its two subtrees.
RECURSIVE TreeHeight(_)
TreeHeight(n) == IF n <= 1 THEN 0 ELSE 1 + TreeHeight((n + 1) \div 2)

RECURSIVE ExportNodes(_)
ExportNodes(leaves) ==
    IF Len(leaves) = 0 THEN <<>>
    ELSE IF Len(leaves) = 1
    THEN <<[key |-> leaves[1].key, value |-> Bytes(leaves[1].value), height |-> 0]>>
    ELSE LET n == Len(leaves)
             m == (n + 1) \div 2
             left == SubSeq(leaves, 1, m)
             right == SubSeq(leaves, m + 1, n)
         IN  ExportNodes(left) \o ExportNodes(right)
             \o <<[key |-> right[1].key, value |-> NilBytes, height |-> TreeHeight(n)]>>

\* ImmutableTree.Export: [panic, nodes]. What the zero-value tree (no node
\* database behind it) does is the library's choice between a nil
\* dereference and an empty stream; zeroTreePanics picks one.
Tree_Export(itree, zeroTreePanics) ==
    IF itree.version = 0 /\ zeroTreePanics THEN [panic |-> TRUE, nodes |-> <<>>]
    ELSE [panic |-> FALSE, nodes |-> ExportNodes(itree.leaves)]

NoImporter == [started |-> FALSE, tree |-> NewMutableTree, version |-> 0]

\* MutableTree.Import: [err, importer]; the tree must be empty and unsaved.
Tree_Import(t, version) ==
    IF t.kind # "mutable" \/ t.version # 0 \/ t.leaves # <<>>
    THEN [err |-> TRUE, importer |-> NoImporter]
    ELSE [err |-> FALSE,
          importer |-> [started |-> TRUE, tree |-> t, version |-> version]]

\* Importer.Add: a leaf is pushed on the stack of subtrees (each held as its
\* leaf list); an inner node replaces the two topmost by their join.
ImporterAdd(stack, node) ==
    IF node.height = 0
    THEN [err |-> FALSE,
          stack |-> Append(stack, <<[key |-> node.key, value |-> node.value.data]>>)]
    ELSE IF Len(stack) < 2 THEN [err |-> TRUE, stack |-> stack]
    ELSE [err |-> FALSE,
          stack |-> Append(SubSeq(stack, 1, Len(stack) - 2),
                           stack[Len(stack) - 1] \o stack[Len(stack)])]

RECURSIVE ImporterAddAll(_, _)
ImporterAddAll(stack, nodes) ==
    IF nodes = <<>> THEN [err |-> FALSE, stack |-> stack]
    ELSE LET r == ImporterAdd(stack, Head(nodes))
         IN  IF r.err THEN r ELSE ImporterAddAll(r.stack, Tail(nodes))

\* Importer.Add of every node, then Importer.Commit: [err, tree]; the tree is
\* saved at the importer's version with the one subtree left on the stack.
ImporterCommit(importer, nodes) ==
    LET r == ImporterAddAll(<<>>, nodes)
    IN  IF ~importer.started \/ r.err \/ Len(r.stack) > 1
        THEN [err |-> TRUE, tree |-> importer.tree]
        ELSE LET leaves == IF r.stack = <<>> THEN <<>> ELSE r.stack[1]
             IN  [err |-> FALSE,
                  tree |-> [importer.tree EXCEPT
                              !.leaves = leaves, !.version = importer.version,
                              !.versions = [w \in {importer.version} |-> leaves]]]

\* ------------------------------------------------------------------- Store
\* A Store is [tree]; every method returning [panic, ...] aborts when panic
\* is TRUE and then leaves the store as it was.

NewStore == [tree |-> NewMutableTree]

\* The nil *Store of a failed GetImmutable.
NoStore == [tree |-> [kind |-> "none", leaves |-> <<>>, version |-> 0,
                      initialVersion |-> 0, versions |-> NoVersions]]

\* types.AssertValidKey / AssertValidValue: TRUE when the assertion passes.
AssertValidKey(key) == Len(key.data) # 0 /\ Len(key.data) <= MaxKeyLength

AssertValidValue(value) == ~value.isNil

\* Mutant: every version from 1 up to the latest counts as existing.
Store_VersionExists_UpToLatest(st, version) ==
    1 <= version /\ version <= Tree_Version(st.tree)

Store_VersionExists(st, version) == Tree_VersionExists(st.tree, version)

\* Mutant: a missing version falls back to a view of the working tree.
Store_GetImmutable_Fallback(st, version) ==
    LET r == Tree_GetImmutable(st.tree, version)
    IN  IF ~Store_VersionExists(st, version)
        THEN [err |-> FALSE,
              st |-> [tree |-> ImmutableTreeOf(st.tree.leaves, st.tree.version)]]
        ELSE [err |-> FALSE, st |-> [tree |-> r.itree]]

\* Mutant: the view is taken from the working tree instead of the saved one.
Store_GetImmutable_Working(st, version) ==
    IF ~Store_VersionExists(st, version)
    THEN [err |-> FALSE, st |-> [tree |-> EmptyImmutableTree]]
    ELSE [err |-> FALSE, st |-> [tree |-> ImmutableTreeOf(st.tree.leaves, version)]]

\* Mutant: the latest version is served by the store's own mutable tree.
Store_GetImmutable_Alias(st, version) ==
    LET r == Tree_GetImmutable(st.tree, version)
    IN  IF ~Store_VersionExists(st, version)
        THEN [err |-> FALSE, st |-> [tree |-> EmptyImmutableTree]]
        ELSE IF version = Tree_Version(st.tree)
        THEN [err |-> FALSE, st |-> st]
        ELSE [err |-> FALSE, st |-> [tree |-> r.itree]]

\* Mutant: every existing version is served by the store's own mutable tree.
Store_GetImmutable_Shared(st, version) ==
    IF ~Store_VersionExists(st, version)
    THEN [err |-> FALSE, st |-> [tree |-> EmptyImmutableTree]]
    ELSE [err |-> FALSE, st |-> st]

Store_GetImmutable(st, version) ==
    IF ~Store_VersionExists(st, version)
    THEN [err |-> FALSE, st |-> [tree |-> EmptyImmutableTree]]
    ELSE LET r == Tree_GetImmutable(st.tree, version)
         IN  IF r.err THEN [err |-> TRUE, st |-> NoStore]
             ELSE [err |-> FALSE, st |-> [tree |-> r.itree]]

NoCommitID == [Version |-> 0, Hash |-> NilBytes]

\* Mutant: the version returned is the number of versions the tree holds.
Store_Commit_CountVersions(st, saveOk) ==
    LET r == Tree_SaveVersion(st.tree, saveOk)
    IN  IF r.panic \/ r.err
        THEN [panic |-> TRUE, cid |-> NoCommitID, st |-> st]
        ELSE [panic |-> FALSE,
              cid |-> [Version |-> Cardinality(DOMAIN r.tree.versions), Hash |-> r.hash],
              st |-> [tree |-> r.tree]]

\* Mutant: a failed save is swallowed and the last CommitID returned.
Store_Commit_Swallow(st, saveOk) ==
    LET r == Tree_SaveVersion(st.tree, saveOk)
    IN  IF r.panic \/ r.err
        THEN [panic |-> FALSE,
              cid |-> [Version |-> Tree_Version(st.tree), Hash |-> Tree_Hash(st.tree)],
              st |-> st]
        ELSE [panic |-> FALSE, cid |-> [Version |-> r.version, Hash |-> r.hash],
              st |-> [tree |-> r.tree]]

Store_Commit(st, saveOk) ==
    LET r == Tree_SaveVersion(st.tree, saveOk)
    IN  IF r.panic \/ r.err
        THEN [panic |-> TRUE, cid |-> NoCommitID, st |-> st]
        ELSE [panic |-> FALSE, cid |-> [Version |-> r.version, Hash |-> r.hash],
              st |-> [tree |-> r.tree]]

\* Mutant: the version of the next commit instead of the last one.
Store_LastCommitID_NextVersion(st) ==
    [Version |-> Tree_Version(st.tree) + 1, Hash |-> Tree_Hash(st.tree)]

\* Mutant: the hash of the working tree instead of the last saved one.
Store_LastCommitID_WorkingHash(st) ==
    [Version |-> Tree_Version(st.tree), Hash |-> RootHash(st.tree.leaves)]

Store_LastCommitID(st) ==
    [Version |-> Tree_Version(st.tree), Hash |-> Tree_Hash(st.tree)]

\* Mutant: the assertions run after the write to the tree.
Store_Set_AssertAfter(st, key, value) ==
    LET r == Tree_Set(st.tree, key, value)
    IN  [panic |-> r.panic \/ ~AssertValidKey(key) \/ ~AssertValidValue(value),
         st |-> [tree |-> r.tree]]

Store_Set(st, key, value) ==
    IF ~AssertValidKey(key) \/ ~AssertValidValue(value)
    THEN [panic |-> TRUE, st |-> st]
    ELSE LET r == Tree_Set(st.tree, key, value)
         IN  [panic |-> r.panic, st |-> [tree |-> r.tree]]

Store_Get(st, key) == Tree_Get(st.tree, key)

Store_Has(st, key) == Tree_Has(st.tree, key)

\* Mutant: the removal is not passed on to the tree.
Store_Delete_Dropped(st, key) == [panic |-> st.tree.kind = "immutable", st |-> st]

Store_Delete(st, key) ==
    LET r == Tree_Remove(st.tree, key)
    IN  [panic |-> r.panic, st |-> [tree |-> r.tree]]

\* Mutant: the versions are deleted one at a time in ascending order, stopping
\* at the first invalid one.
Store_DeleteVersions_OneByOne(st, versions) ==
    LET bad == {v \in versions : ~ValidToDelete(st.tree, v)}
        done == {v \in versions : \A b \in bad : v < b}
        r == Tree_DeleteVersions(st.tree, done)
    IN  [panic |-> r.panic, err |-> bad # {}, st |-> [tree |-> r.tree]]

\* Mutant: the working tree is reloaded from the latest saved version after
\* a deletion.
Store_DeleteVersions_Reload(st, versions) ==
    LET r == Tree_DeleteVersions(st.tree, versions)
    IN  [panic |-> r.panic, err |-> r.err,
         st |-> [tree |-> IF r.err \/ r.panic \/ versions = {} \/ r.tree.version = 0
                          THEN r.tree
                          ELSE [r.tree EXCEPT !.leaves = r.tree.versions[r.tree.version]]]]

Store_DeleteVersions(st, versions) ==
    LET r == Tree_DeleteVersions(st.tree, versions)
    IN  [panic |-> r.panic, err |-> r.err, st |-> [tree |-> r.tree]]

Store_Iterator(st, start, end) == Tree_Iterator(st.tree, start, end, TRUE)

\* Mutant: the reverse iterator asks the tree for ascending order.
Store_ReverseIterator_Ascending(st, start, end) ==
    Tree_Iterator(st.tree, start, end, TRUE)

Store_ReverseIterator(st, start, end) == Tree_Iterator(st.tree, start, end, FALSE)

\* Mutant: the initial version is not passed on to the tree.
Store_SetInitialVersion_Dropped(st, version) ==
    [panic |-> st.tree.kind = "immutable", st |-> st]

Store_SetInitialVersion(st, version) ==
    LET r == Tree_SetInitialVersion(st.tree, version)
    IN  [panic |-> r.panic, st |-> [tree |-> r.tree]]

\* Mutant: the store's own working tree is exported.
Store_Export_Working(st, version, zeroTreePanics) ==
    [err |-> FALSE, panic |-> FALSE, nodes |-> ExportNodes(st.tree.leaves)]

\* [err, panic, nodes]: the stream of the exporter returned.
Store_Export(st, version, zeroTreePanics) ==
    LET g == Store_GetImmutable(st, version)
    IN  IF g.err \/ g.st.tree.kind # "immutable"
        THEN [err |-> TRUE, panic |-> FALSE, nodes |-> <<>>]
        ELSE LET e == Tree_Export(g.st.tree, zeroTreePanics)
             IN  [err |-> FALSE, panic |-> e.panic, nodes |-> e.nodes]

\* Mutant: the tree's Import is called whatever tree backs the store.
Store_Import_AnyTree(st, version) ==
    LET t == [st.tree EXCEPT !.kind = "mutable"]
        r == Tree_Import(t, version)
    IN  [err |-> r.err, panic |-> FALSE, importer |-> r.importer]

\* [err, panic, importer]
Store_Import(st, version) ==
    IF st.tree.kind # "mutable"
    THEN [err |-> TRUE, panic |-> FALSE, importer |-> NoImporter]
    ELSE LET r == Tree_Import(st.tree, version)
         IN  [err |-> r.err, panic |-> FALSE, importer |-> r.importer]

\* ------------------------------------------------------------------- Query
\* abci.RequestQuery is [Path, Data, Height, Prove]; abci.ResponseQuery is
\* [Code, Log, Height, Key, Value, ProofOps], Code "OK" being code 0.

NoProofOps == [isNil |-> TRUE, Ops |-> <<>>]

NoResponse ==
    [Code |-> "OK", Log |-> "", Height |-> 0, Key |-> NilBytes,
     Value |-> NilBytes, ProofOps |-> NoProofOps]

\* sdkerrors.QueryResult(err)
QueryResult(err) == [NoResponse EXCEPT !.Code = err, !.Log = err]

ErrVersionDoesNotExist == "version does not exist"

\* types.PrefixEndBytes: the prefix with its last byte incremented, dropping
\* trailing 255 bytes; nil when nothing is left.
RECURSIVE PrefixEndBytes(_)
PrefixEndBytes(prefix) ==
    IF Len(prefix.data) = 0 THEN NilBytes
    ELSE LET n == Len(prefix.data)
         IN  IF prefix.data[n] # 255
             THEN Bytes([prefix.data EXCEPT ![n] = @ + 1])
             ELSE PrefixEndBytes(Bytes(SubSeq(prefix.data, 1, n - 1)))

\* types.KVStorePrefixIterator(st, prefix)
KVStorePrefixIterator(st, prefix) ==
    Store_Iterator(st, prefix, PrefixEndBytes(prefix))

\* Mutant: height 0 always resolves to latest - 1.
getHeight_NoFallback(tree, req) ==
    IF req.Height = 0 THEN Tree_Version(tree) - 1 ELSE req.Height

getHeight(tree, req) ==
    IF req.Height = 0
    THEN LET latest == Tree_Version(tree)
         IN  IF Tree_VersionExists(tree, latest - 1) THEN latest - 1 ELSE latest
    ELSE req.Height

\* [panic, ops]
getProofFromTree(itree, key, exists) ==
    LET r == IF exists THEN Tree_GetMembershipProof(itree, key)
             ELSE Tree_GetNonMembershipProof(itree, key)
    IN  IF r.err THEN [panic |-> TRUE, ops |-> NoProofOps]
        ELSE [panic |-> FALSE,
              ops |-> [isNil |-> FALSE,
                       Ops |-> <<[Type |-> "ics23:iavl", Key |-> key, Data |-> r.proof]>>]]

\* Mutant: the existence of the resolved height is not checked.
QueryKey_Unchecked(st, req, height) ==
    LET res == [NoResponse EXCEPT !.Height = height, !.Key = req.Data]
        value == Tree_GetVersioned(st.tree, req.Data, height)
        g == Tree_GetImmutable(st.tree, height)
        p == getProofFromTree(g.itree, req.Data, ~value.isNil)
    IN  IF ~req.Prove
        THEN [panic |-> FALSE, res |-> [res EXCEPT !.Value = value]]
        ELSE IF g.err \/ p.panic
        THEN [panic |-> TRUE, res |-> NoResponse]
        ELSE [panic |-> FALSE,
              res |-> [res EXCEPT !.Value = value, !.ProofOps = p.ops]]

\* Mutant: a key counts as present only when its value has a byte.
QueryKey_ExistsByLength(st, req, height) ==
    LET res == [NoResponse EXCEPT !.Height = height, !.Key = req.Data]
    IN  IF ~Store_VersionExists(st, height)
        THEN [panic |-> FALSE, res |-> [res EXCEPT !.Log = ErrVersionDoesNotExist]]
        ELSE LET value == Tree_GetVersioned(st.tree, req.Data, height)
                 g == Tree_GetImmutable(st.tree, height)
                 p == getProofFromTree(g.itree, req.Data, Len(value.data) > 0)
             IN  IF ~req.Prove
                 THEN [panic |-> FALSE, res |-> [res EXCEPT !.Value = value]]
                 ELSE IF g.err \/ p.panic
                 THEN [panic |-> TRUE, res |-> NoResponse]
                 ELSE [panic |-> FALSE,
                       res |-> [res EXCEPT !.Value = value, !.ProofOps = p.ops]]

\* Mutant: height 0 is answered from the working tree.
QueryKey_WorkingAtZero(st, req, height) ==
    LET res == [NoResponse EXCEPT !.Height = height, !.Key = req.Data]
    IN  IF height = 0
        THEN [panic |-> FALSE, res |-> [res EXCEPT !.Value = Store_Get(st, req.Data)]]
        ELSE IF ~Store_VersionExists(st, height)
        THEN [panic |-> FALSE, res |-> [res EXCEPT !.Log = ErrVersionDoesNotExist]]
        ELSE LET value == Tree_GetVersioned(st.tree, req.Data, height)
                 g == Tree_GetImmutable(st.tree, height)
                 p == getProofFromTree(g.itree, req.Data, ~value.isNil)
             IN  IF ~req.Prove
                 THEN [panic |-> FALSE, res |-> [res EXCEPT !.Value = value]]
                 ELSE IF g.err \/ p.panic
                 THEN [panic |-> TRUE, res |-> NoResponse]
                 ELSE [panic |-> FALSE,
                       res |-> [res EXCEPT !.Value = value, !.ProofOps = p.ops]]

\* The "/key" case of Query, at the resolved height.
QueryKey(st, req, height) ==
    LET res == [NoResponse EXCEPT !.Height = height, !.Key = req.Data]
    IN  IF ~Store_VersionExists(st, height)
        THEN [panic |-> FALSE, res |-> [res EXCEPT !.Log = ErrVersionDoesNotExist]]
        ELSE LET value == Tree_GetVersioned(st.tree, req.Data, height)
                 g == Tree_GetImmutable(st.tree, height)
                 p == getProofFromTree(g.itree, req.Data, ~value.isNil)
             IN  IF ~req.Prove
                 THEN [panic |-> FALSE, res |-> [res EXCEPT !.Value = value]]
                 ELSE IF g.err \/ p.panic
                 THEN [panic |-> TRUE, res |-> NoResponse]
                 ELSE [panic |-> FALSE,
                       res |-> [res EXCEPT !.Value = value, !.ProofOps = p.ops]]

\* Mutant: the pairs are read from the version at the resolved height.
QuerySubspace_AtHeight(st, req, height) ==
    [panic |-> FALSE,
     res |-> [NoResponse EXCEPT
                !.Height = height, !.Key = req.Data,
                !.Value = Bytes(EncodePairs(KVStorePrefixIterator(
                              Store_GetImmutable(st, height).st, req.Data)))]]

\* The "/subspace" case of Query.
QuerySubspace(st, req, height) ==
    [panic |-> FALSE,
     res |-> [NoResponse EXCEPT
                !.Height = height, !.Key = req.Data,
                !.Value = Bytes(EncodePairs(KVStorePrefixIterator(st, req.Data)))]]

\* Mutant: the request data is not checked for emptiness.
Store_Query_NoEmptyCheck(st, req) ==
    LET height == getHeight(st.tree, req)
    IN  CASE req.Path = "/key" -> QueryKey(st, req, height)
          [] req.Path = "/subspace" -> QuerySubspace(st, req, height)
          [] OTHER -> [panic |-> FALSE, res |-> QueryResult("ErrUnknownRequest")]

\* Mutant: an unknown path leaves the switch with the response built so far.
Store_Query_DefaultBreaks(st, req) ==
    IF Len(req.Data.data) = 0
    THEN [panic |-> FALSE, res |-> QueryResult("ErrTxDecode")]
    ELSE LET height == getHeight(st.tree, req)
         IN  CASE req.Path = "/key" -> QueryKey(st, req, height)
               [] req.Path = "/subspace" -> QuerySubspace(st, req, height)
               [] OTHER -> [panic |-> FALSE,
                            res |-> [NoResponse EXCEPT !.Height = height]]

\* [panic, res]
Store_Query(st, req) ==
    IF Len(req.Data.data) = 0
    THEN [panic |-> FALSE, res |-> QueryResult("ErrTxDecode")]
    ELSE LET height == getHeight(st.tree, req)
         IN  CASE req.Path = "/key" -> QueryKey(st, req, height)
               [] req.Path = "/subspace" -> QuerySubspace(st, req, height)
               [] OTHER -> [panic |-> FALSE, res |-> QueryResult("ErrUnknownRequest")]

\* Mutant: the iterator of a "/subspace" query is left open.
QueryOpenIterators_NoClose(st, req) ==
    IF Len(req.Data.data) = 0 \/ req.Path # "/subspace" THEN 0 ELSE 1

\* Iterators a Query has opened and not closed when it returns: the
\* "/subspace" case opens one prefix iterator and closes it after the loop.
QueryOpenIterators(st, req) ==
    IF Len(req.Data.data) = 0 \/ req.Path # "/subspace" THEN 0
    ELSE LET opened == 1
             closed == 1
         IN  opened - closed

\* ----------------------------------------------------------- state machine
\* st    the store under test (a mutable tree);
\* last  the last call: its operation, arguments and results, the handle a
\*       GetImmutable returned, and whether the call changed the store;
\* hist  history: the number of successful Commit calls, the version the
\*       first of them established and the CommitID the latest returned.
\* replica   a second store and the CommitIDs the two returned last;
\* reader    a second caller's handle from GetImmutable and what it read;
\* inflight  a second caller's Query between its calls on the tree.

VARIABLES st, last, hist, replica, reader, inflight

vars == <<st, last, hist, replica, reader, inflight>>

\* What the calls of one caller on one store leave alone.
side == <<replica, reader, inflight>>

\* Versions and heights a caller passes: none, saved, pruned, beyond latest.
VersionInputs == 0..(MaxCommits + 1)

InitialVersionInputs == {0, 2}

\* DeleteVersions batches: empty, one version, two versions.
BatchInputs == {b \in SUBSET VersionInputs : Cardinality(b) <= 2}

QueryInputs ==
    [Path : {"/key", "/subspace", "/store"},
     Data : {NilBytes} \cup {Bytes(d) : d \in KeyData \cup {<<>>, <<2>>}},
     Height : VersionInputs,
     Prove : BOOLEAN]

NoRequest == [Path |-> "", Data |-> NilBytes, Height |-> 0, Prove |-> FALSE]

NoCall ==
    [op |-> "none", key |-> NilBytes, value |-> NilBytes, version |-> 0,
     versions |-> {}, req |-> NoRequest, saveOk |-> TRUE, panic |-> FALSE,
     err |-> FALSE, bytes |-> NilBytes, bool |-> FALSE, cid |-> NoCommitID,
     res |-> NoResponse, handle |-> NoStore, changed |-> FALSE,
     nodes |-> <<>>, importer |-> NoImporter, start |-> NilBytes,
     end |-> NilBytes, pairs |-> <<>>, open |-> 0]

NoReplica == [st |-> NewStore, cid |-> NoCommitID]

\* Keys a reader reads: the keys a store can hold.
ReaderKeys == {Bytes(d) : d \in KeyData}

NoReader ==
    [open |-> FALSE, version |-> 0, existed |-> FALSE, handle |-> NoStore,
     first |-> [k \in ReaderKeys |-> NilBytes], key |-> NilBytes, got |-> NilBytes]

\* pc is the place of a "/key" Query: "idle" (none running), "checked"
\* (after VersionExists), "looked" (after GetVersioned), "done" (returned or
\* panicked); expect is the value the resolved height held when it started.
NoInflight ==
    [pc |-> "idle", req |-> NoRequest, expect |-> NilBytes, panic |-> FALSE,
     res |-> NoResponse]

Init ==
    /\ st = NewStore
    /\ last = NoCall
    /\ hist = [commits |-> 0, first |-> 0, cid |-> NoCommitID]
    /\ replica = NoReplica
    /\ reader = NoReader
    /\ inflight = NoInflight

\* A call that left the store as it was (a read, a failed or an aborted
\* call) is explored as the last call of its run: the calls that can follow
\* it are those of the same store without it.
Live == last.op = "none" \/ last.changed

\* A write through a handle reaches the store's own tree only when the
\* handle shares it (a *Store over the same mutable tree); a handle over an
\* immutable tree has its own.
WriteThrough(handle, written) ==
    IF handle.tree.kind = "mutable" THEN written ELSE st

Set(key, value) ==
    LET r == Store_Set(st, key, value)
    IN  /\ Live
        /\ st' = r.st
        /\ last' = [NoCall EXCEPT !.op = "Set", !.key = key, !.value = value,
                                  !.panic = r.panic, !.changed = (r.st # st)]
        /\ UNCHANGED hist
        /\ UNCHANGED side

Get(key) ==
    /\ Live
    /\ last' = [NoCall EXCEPT !.op = "Get", !.key = key, !.bytes = Store_Get(st, key)]
    /\ UNCHANGED <<st, hist>>
    /\ UNCHANGED side

Has(key) ==
    /\ Live
    /\ last' = [NoCall EXCEPT !.op = "Has", !.key = key, !.bool = Store_Has(st, key)]
    /\ UNCHANGED <<st, hist>>
    /\ UNCHANGED side

Delete(key) ==
    LET r == Store_Delete(st, key)
    IN  /\ Live
        /\ st' = r.st
        /\ last' = [NoCall EXCEPT !.op = "Delete", !.key = key, !.panic = r.panic,
                                  !.changed = (r.st # st)]
        /\ UNCHANGED hist
        /\ UNCHANGED side

Commit(saveOk) ==
    LET r == Store_Commit(st, saveOk)
    IN  /\ Live
        /\ saveOk => hist.commits < MaxCommits
        /\ st' = r.st
        /\ last' = [NoCall EXCEPT !.op = "Commit", !.saveOk = saveOk,
                                  !.panic = r.panic, !.cid = r.cid,
                                  !.changed = (r.st # st)]
        /\ hist' = IF r.panic THEN hist
                   ELSE [commits |-> hist.commits + 1,
                         first |-> IF hist.commits = 0
                                   THEN (IF st.tree.initialVersion > 0
                                         THEN st.tree.initialVersion ELSE 1)
                                   ELSE hist.first,
                         cid |-> r.cid]
        /\ UNCHANGED side

LastCommitID ==
    /\ Live
    /\ last' = [NoCall EXCEPT !.op = "LastCommitID", !.cid = Store_LastCommitID(st)]
    /\ UNCHANGED <<st, hist>>
    /\ UNCHANGED side

VersionExists(version) ==
    /\ Live
    /\ last' = [NoCall EXCEPT !.op = "VersionExists", !.version = version,
                              !.bool = Store_VersionExists(st, version)]
    /\ UNCHANGED <<st, hist>>
    /\ UNCHANGED side

GetImmutable(version) ==
    LET r == Store_GetImmutable(st, version)
    IN  /\ Live
        /\ last' = [NoCall EXCEPT !.op = "GetImmutable", !.version = version,
                                  !.err = r.err, !.handle = r.st]
        /\ UNCHANGED <<st, hist>>
        /\ UNCHANGED side

DeleteVersions(versions) ==
    LET r == Store_DeleteVersions(st, versions)
    IN  /\ Live
        /\ st' = r.st
        /\ last' = [NoCall EXCEPT !.op = "DeleteVersions", !.versions = versions,
                                  !.panic = r.panic, !.err = r.err,
                                  !.changed = (r.st # st)]
        /\ UNCHANGED hist
        /\ UNCHANGED side

SetInitialVersion(version) ==
    LET r == Store_SetInitialVersion(st, version)
    IN  /\ Live
        /\ st' = r.st
        /\ last' = [NoCall EXCEPT !.op = "SetInitialVersion", !.version = version,
                                  !.panic = r.panic, !.changed = (r.st # st)]
        /\ UNCHANGED hist
        /\ UNCHANGED side

Query(req) ==
    LET r == Store_Query(st, req)
    IN  /\ Live
        /\ last' = [NoCall EXCEPT !.op = "Query", !.req = req, !.panic = r.panic,
                                  !.res = r.res,
                                  !.open = QueryOpenIterators(st, req)]
        /\ UNCHANGED <<st, hist>>
        /\ UNCHANGED side

\* GetImmutable(version) followed by a call on the handle it returned.
HandleSet(version, key, value) ==
    LET h == Store_GetImmutable(st, version)
        r == Store_Set(h.st, key, value)
    IN  /\ Live
        /\ ~h.err
        /\ st' = WriteThrough(h.st, r.st)
        /\ last' = [NoCall EXCEPT !.op = "HandleSet", !.version = version,
                                  !.key = key, !.value = value, !.panic = r.panic,
                                  !.handle = r.st, !.changed = (st' # st)]
        /\ UNCHANGED hist
        /\ UNCHANGED side

HandleDelete(version, key) ==
    LET h == Store_GetImmutable(st, version)
        r == Store_Delete(h.st, key)
    IN  /\ Live
        /\ ~h.err
        /\ st' = WriteThrough(h.st, r.st)
        /\ last' = [NoCall EXCEPT !.op = "HandleDelete", !.version = version,
                                  !.key = key, !.panic = r.panic,
                                  !.handle = r.st, !.changed = (st' # st)]
        /\ UNCHANGED hist
        /\ UNCHANGED side

HandleGet(version, key) ==
    LET h == Store_GetImmutable(st, version)
    IN  /\ Live
        /\ ~h.err
        /\ last' = [NoCall EXCEPT !.op = "HandleGet", !.version = version,
                                  !.key = key, !.handle = h.st,
                                  !.bytes = Store_Get(h.st, key)]
        /\ UNCHANGED <<st, hist>>
        /\ UNCHANGED side

HandleHas(version, key) ==
    LET h == Store_GetImmutable(st, version)
    IN  /\ Live
        /\ ~h.err
        /\ last' = [NoCall EXCEPT !.op = "HandleHas", !.version = version,
                                  !.key = key, !.handle = h.st,
                                  !.bool = Store_Has(h.st, key)]
        /\ UNCHANGED <<st, hist>>
        /\ UNCHANGED side

Export(version, zeroTreePanics) ==
    LET r == Store_Export(st, version, zeroTreePanics)
    IN  /\ Live
        /\ last' = [NoCall EXCEPT !.op = "Export", !.version = version,
                                  !.err = r.err, !.panic = r.panic,
                                  !.nodes = r.nodes]
        /\ UNCHANGED <<st, hist>>
        /\ UNCHANGED side

Import(version) ==
    LET r == Store_Import(st, version)
    IN  /\ Live
        /\ last' = [NoCall EXCEPT !.op = "Import", !.version = version,
                                  !.err = r.err, !.panic = r.panic,
                                  !.importer = r.importer]
        /\ UNCHANGED <<st, hist>>
        /\ UNCHANGED side

\* GetImmutable(version) followed by Import(version) on the handle.
HandleImport(version) ==
    LET h == Store_GetImmutable(st, version)
        r == Store_Import(h.st, version)
    IN  /\ Live
        /\ ~h.err
        /\ last' = [NoCall EXCEPT !.op = "HandleImport", !.version = version,
                                  !.err = r.err, !.panic = r.panic,
                                  !.handle = h.st, !.importer = r.importer]
        /\ UNCHANGED <<st, hist>>
        /\ UNCHANGED side

\* Export(version), then Import(version) on a freshly loaded empty store
\* with every exported node added and the importer committed; last.handle
\* is the store imported into.
ExportImport(version) ==
    LET e == Store_Export(st, version, FALSE)
        i == Store_Import(NewStore, version)
        r == ImporterCommit(i.importer, e.nodes)
    IN  /\ Live
        /\ ~e.err /\ ~i.err
        /\ last' = [NoCall EXCEPT !.op = "ExportImport", !.version = version,
                                  !.err = r.err, !.nodes = e.nodes,
                                  !.importer = i.importer,
                                  !.handle = [tree |-> r.tree]]
        /\ UNCHANGED <<st, hist>>
        /\ UNCHANGED side

\* Iterator(start, end) drained: the pairs it yields, in order.
Iterator(start, end) ==
    /\ Live
    /\ last' = [NoCall EXCEPT !.op = "Iterator", !.start = start, !.end = end,
                              !.pairs = Store_Iterator(st, start, end)]
    /\ UNCHANGED <<st, hist>>
    /\ UNCHANGED side

ReverseIterator(start, end) ==
    /\ Live
    /\ last' = [NoCall EXCEPT !.op = "ReverseIterator", !.start = start, !.end = end,
                              !.pairs = Store_ReverseIterator(st, start, end)]
    /\ UNCHANGED <<st, hist>>
    /\ UNCHANGED side

\* What a read through a handle reaches: the store's own tree when the
\* handle shares it, else the handle's immutable tree.
Deref(handle) ==
    IF handle.tree.kind = "mutable" THEN st ELSE handle

\* A second caller takes a handle from GetImmutable and reads every key.
ReaderOpen(version) ==
    LET h == Store_GetImmutable(st, version)
    IN  /\ ~reader.open
        /\ ~h.err
        /\ reader' = [open |-> TRUE, version |-> version,
                      existed |-> Store_VersionExists(st, version), handle |-> h.st,
                      first |-> [k \in ReaderKeys |-> Store_Get(Deref(h.st), k)],
                      key |-> NilBytes, got |-> NilBytes]
        /\ UNCHANGED <<st, last, hist, replica, inflight>>

\* The reader's Get on its handle, at any time between the writer's calls.
ReaderRead(key) ==
    /\ reader.open
    /\ reader' = [reader EXCEPT !.key = key,
                                !.got = Store_Get(Deref(reader.handle), key)]
    /\ UNCHANGED <<st, last, hist, replica, inflight>>

\* A "/key" Query of a second caller, one call on the tree at a time, so
\* that another caller's calls can come in between. QueryBegin is the code
\* up to the VersionExists test, QueryLookup the GetVersioned call,
\* QueryProve the GetImmutable call and the proof.
QueryBegin(req) ==
    LET height == getHeight(st.tree, req)
        res == [NoResponse EXCEPT !.Height = height, !.Key = req.Data]
    IN  /\ inflight.pc = "idle"
        /\ inflight' =
              IF ~Store_VersionExists(st, height)
              THEN [pc |-> "done", req |-> req, expect |-> NilBytes, panic |-> FALSE,
                    res |-> [res EXCEPT !.Log = ErrVersionDoesNotExist]]
              ELSE [pc |-> "checked", req |-> req,
                    expect |-> Tree_GetVersioned(st.tree, req.Data, height),
                    panic |-> FALSE, res |-> res]
        /\ UNCHANGED <<st, last, hist, replica, reader>>

QueryLookup ==
    LET value == Tree_GetVersioned(st.tree, inflight.req.Data, inflight.res.Height)
    IN  /\ inflight.pc = "checked"
        /\ inflight' = [inflight EXCEPT
                           !.res.Value = value,
                           !.pc = IF inflight.req.Prove THEN "looked" ELSE "done"]
        /\ UNCHANGED <<st, last, hist, replica, reader>>

QueryProve ==
    LET g == Tree_GetImmutable(st.tree, inflight.res.Height)
        p == getProofFromTree(g.itree, inflight.req.Data, ~inflight.res.Value.isNil)
    IN  /\ inflight.pc = "looked"
        /\ inflight' =
              IF g.err \/ p.panic
              THEN [inflight EXCEPT !.pc = "done", !.panic = TRUE, !.res = NoResponse]
              ELSE [inflight EXCEPT !.pc = "done", !.res.ProofOps = p.ops]
        /\ UNCHANGED <<st, last, hist, replica, reader>>

\* The same call made on the store and on the replica.
ReplaySet(key, value) ==
    LET r == Store_Set(st, key, value)
        q == Store_Set(replica.st, key, value)
    IN  /\ Live
        /\ st' = r.st
        /\ replica' = [replica EXCEPT !.st = q.st]
        /\ last' = [NoCall EXCEPT !.op = "ReplaySet", !.key = key, !.value = value,
                                  !.panic = r.panic, !.changed = (r.st # st)]
        /\ UNCHANGED <<hist, reader, inflight>>

ReplayDelete(key) ==
    LET r == Store_Delete(st, key)
        q == Store_Delete(replica.st, key)
    IN  /\ Live
        /\ st' = r.st
        /\ replica' = [replica EXCEPT !.st = q.st]
        /\ last' = [NoCall EXCEPT !.op = "ReplayDelete", !.key = key,
                                  !.panic = r.panic, !.changed = (r.st # st)]
        /\ UNCHANGED <<hist, reader, inflight>>

ReplayCommit ==
    LET r == Store_Commit(st, TRUE)
        q == Store_Commit(replica.st, TRUE)
    IN  /\ Live
        /\ hist.commits < MaxReplayCommits
        /\ st' = r.st
        /\ replica' = [st |-> q.st, cid |-> q.cid]
        /\ last' = [NoCall EXCEPT !.op = "ReplayCommit", !.panic = r.panic,
                                  !.cid = r.cid, !.changed = (r.st # st)]
        /\ hist' = [hist EXCEPT !.commits = @ + 1, !.cid = r.cid]
        /\ UNCHANGED <<reader, inflight>>

Next ==
    \/ \E key \in KeyInputs, value \in ValInputs : Set(key, value)
    \/ \E key \in KeyInputs : Get(key)
    \/ \E key \in KeyInputs : Has(key)
    \/ \E key \in KeyInputs : Delete(key)
    \/ \E saveOk \in BOOLEAN : Commit(saveOk)
    \/ LastCommitID
    \/ \E version \in VersionInputs : VersionExists(version)
    \/ \E version \in VersionInputs : GetImmutable(version)
    \/ \E versions \in BatchInputs : DeleteVersions(versions)
    \/ \E version \in InitialVersionInputs : SetInitialVersion(version)
    \/ \E req \in QueryInputs : Query(req)
    \/ \E version \in VersionInputs, key \in KeyInputs, value \in ValInputs :
          HandleSet(version, key, value)
    \/ \E version \in VersionInputs, key \in KeyInputs : HandleDelete(version, key)
    \/ \E version \in VersionInputs, key \in KeyInputs : HandleGet(version, key)
    \/ \E version \in VersionInputs, key \in KeyInputs : HandleHas(version, key)
    \/ \E version \in VersionInputs, zeroTreePanics \in BOOLEAN :
          Export(version, zeroTreePanics)
    \/ \E version \in VersionInputs : Import(version)
    \/ \E version \in VersionInputs : HandleImport(version)
    \/ \E version \in VersionInputs : ExportImport(version)

Spec == Init /\ [][Next]_vars

\* The proof queries over stores that also hold zero-length values: valid
\* writes of an empty or a one-byte value, commits, prunings of one version
\* and "/key" queries.
ProofValData == {<<>>, <<7>>}

ProofQueryInputs ==
    [Path : {"/key"},
     Data : {Bytes(d) : d \in KeyData \cup {<<2>>}},
     Height : VersionInputs,
     Prove : BOOLEAN]

NextProof ==
    \/ \E d \in KeyData, v \in ProofValData : Set(Bytes(d), Bytes(v))
    \/ \E d \in KeyData : Delete(Bytes(d))
    \/ Commit(TRUE)
    \/ \E version \in VersionInputs : DeleteVersions({version})
    \/ \E req \in ProofQueryInputs : Query(req)

SpecProof == Init /\ [][NextProof]_vars

\* The subspace queries over stores that also hold a key past the range of
\* a prefix: valid writes, commits and "/subspace" queries.
SubspaceKeyData == KeyData \cup {<<2>>}

SubspaceQueryInputs ==
    [Path : {"/subspace"},
     Data : {Bytes(d) : d \in SubspaceKeyData \cup {<<1, 1>>}},
     Height : VersionInputs,
     Prove : BOOLEAN]

NextSubspace ==
    \/ \E d \in SubspaceKeyData, v \in ValData : Set(Bytes(d), Bytes(v))
    \/ \E d \in SubspaceKeyData : Delete(Bytes(d))
    \/ Commit(TRUE)
    \/ \E req \in SubspaceQueryInputs : Query(req)

SpecSubspace == Init /\ [][NextSubspace]_vars

\* The snapshot round trips over stores of up to three leaves: valid
\* writes, commits, and exports imported into a fresh store.
NextSnapshot ==
    \/ \E d \in SubspaceKeyData, v \in ValData : Set(Bytes(d), Bytes(v))
    \/ \E d \in SubspaceKeyData : Delete(Bytes(d))
    \/ Commit(TRUE)
    \/ \E version \in VersionInputs : ExportImport(version)

SpecSnapshot == Init /\ [][NextSnapshot]_vars

\* Two stores given the same writes and commits, one of them also pruned.
NextReplay ==
    \/ \E d \in KeyData, v \in ValData : ReplaySet(Bytes(d), Bytes(v))
    \/ \E d \in KeyData : ReplayDelete(Bytes(d))
    \/ ReplayCommit
    \/ \E version \in VersionInputs : DeleteVersions({version})

SpecReplay == Init /\ [][NextReplay]_vars

\* One caller's writes, commits and prunings interleaved with the calls of
\* another caller's "/key" Query.
RaceQueryInputs ==
    [Path : {"/key"}, Data : ReaderKeys, Height : VersionInputs, Prove : BOOLEAN]

NextRace ==
    \/ \E d \in KeyData, v \in ValData : Set(Bytes(d), Bytes(v))
    \/ Commit(TRUE)
    \/ \E version \in VersionInputs : DeleteVersions({version})
    \/ \E req \in RaceQueryInputs : QueryBegin(req)
    \/ QueryLookup
    \/ QueryProve

SpecRace == Init /\ [][NextRace]_vars

\* Range iteration over stores of up to three keys; a nil bound is open.
IteratorBounds == {NilBytes} \cup {Bytes(d) : d \in SubspaceKeyData \cup {<<3>>}}

NextIterator ==
    \/ \E d \in SubspaceKeyData, v \in ValData : Set(Bytes(d), Bytes(v))
    \/ \E d \in SubspaceKeyData : Delete(Bytes(d))
    \/ Commit(TRUE)
    \/ \E start \in IteratorBounds, end \in IteratorBounds : Iterator(start, end)
    \/ \E start \in IteratorBounds, end \in IteratorBounds : ReverseIterator(start, end)

SpecIterator == Init /\ [][NextIterator]_vars

\* One writer on the working version and one reader on a handle, their
\* calls interleaved in every order.
NextReader ==
    \/ \E d \in KeyData, v \in ValData : Set(Bytes(d), Bytes(v))
    \/ \E d \in KeyData : Delete(Bytes(d))
    \/ Commit(TRUE)
    \/ \E version \in VersionInputs : ReaderOpen(version)
    \/ \E key \in ReaderKeys : ReaderRead(key)

SpecReader == Init /\ [][NextReader]_vars

\* ------------------------------------------------------------------ claims

Latest == Store_LastCommitID(st).Version

\* What a handle shows: every key's value and presence, and its root hash.
View(handle) ==
    [get |-> [k \in KeyInputs |-> Store_Get(handle, k)],
     has |-> [k \in KeyInputs |-> Store_Has(handle, k)],
     hash |-> Store_LastCommitID(handle).Hash]

EmptyView(handle) ==
    \A k \in KeyInputs : Store_Get(handle, k) = NilBytes /\ ~Store_Has(handle, k)

\* C1: LastCommitID().Version is 0 before the first successful Commit and
\* first + N - 1 after N of them, first being 1 or the initial version
\* configured when the first Commit ran; a successful Commit raises it by
\* one (the first establishes it) and no other call changes it.
C1_VersionCountsCommits ==
    /\ [](Latest = IF hist.commits = 0 THEN 0 ELSE hist.first + hist.commits - 1)
    /\ [][IF last'.op = "Commit" /\ ~last'.panic
          THEN Latest' = (IF hist.commits = 0 THEN hist'.first ELSE Latest + 1)
          ELSE Latest' = Latest]_vars

C1_Witness ==
    /\ last.op = "Commit" /\ ~last.panic
    /\ hist.commits = 2 /\ hist.first = 2 /\ Latest = 3

\* C2: LastCommitID() is the CommitID the most recent successful Commit
\* returned, also after uncommitted Set and Delete calls, and a call of it
\* changes nothing.
C2_LastCommitIDIsLastCommit ==
    /\ [](/\ Store_LastCommitID(st) = hist.cid
          /\ (last.op = "Commit" /\ ~last.panic => last.cid = Store_LastCommitID(st))
          /\ (last.op = "LastCommitID" => last.cid = hist.cid))
    /\ [][last'.op = "LastCommitID" => st' = st /\ hist' = hist]_vars

C2_Witness ==
    /\ last.op = "Set" /\ last.changed
    /\ hist.commits >= 1
    /\ RootHash(st.tree.leaves) # hist.cid.Hash
    /\ Store_LastCommitID(st) = hist.cid

\* C3: after a Set of a valid key and non-nil value, Get of the key returns
\* the value; after a Delete, Get of the key is absent, and Delete never
\* fails; Has agrees with Get being present; and a Set or Delete of a key
\* changes the value read for no other key.
C3_SetGetDeleteHas ==
    /\ [](/\ (last.op = "Set" /\ AssertValidKey(last.key) /\ ~last.value.isNil
                => ~last.panic /\ Store_Get(st, last.key) = last.value)
          /\ (last.op = "Delete"
                => ~last.panic /\ Store_Get(st, last.key) = NilBytes)
          /\ \A k \in KeyInputs : Store_Has(st, k) <=> ~Store_Get(st, k).isNil)
    /\ [][\A k \in KeyInputs :
            last'.op \in {"Set", "Delete"} /\ k.data # last'.key.data
                => Store_Get(st', k) = Store_Get(st, k)]_vars

C3_Witness ==
    /\ last.op = "Delete" /\ last.changed
    /\ \E k \in KeyInputs : Store_Has(st, k)

\* C4: while a committed version exists, what GetImmutable of it shows (every
\* key's value and the root hash) is the same before and after every call;
\* a version stops existing only by a successful DeleteVersions listing it.
C4_CommittedVersionsImmutable ==
    [][\/ st' = st
       \/ \A h \in VersionInputs :
            /\ (Store_VersionExists(st, h) /\ Store_VersionExists(st', h)
                  => View(Store_GetImmutable(st', h).st)
                       = View(Store_GetImmutable(st, h).st))
            /\ (Store_VersionExists(st, h) /\ ~Store_VersionExists(st', h)
                  => last'.op = "DeleteVersions" /\ ~last'.err
                     /\ h \in last'.versions)]_vars

C4_Witness ==
    /\ last.op = "Commit" /\ ~last.panic
    /\ \E h \in VersionInputs, k \in KeyInputs :
          /\ h < Latest /\ Store_VersionExists(st, h)
          /\ ~Store_Get(Store_GetImmutable(st, h).st, k).isNil
          /\ Store_Get(st, k).isNil

\* C5: GetImmutable of a version that does not exist returns no error and an
\* empty view: Get of every key is absent and Has of every key is false.
C5_MissingVersionEmptyView ==
    /\ (last.op = "GetImmutable" /\ ~Store_VersionExists(st, last.version)
          => ~last.err /\ EmptyView(last.handle))
    /\ (last.op = "HandleGet" /\ ~Store_VersionExists(st, last.version)
          => last.bytes = NilBytes)
    /\ (last.op = "HandleHas" /\ ~Store_VersionExists(st, last.version)
          => ~last.bool)

C5_Witness ==
    /\ last.op = "GetImmutable" /\ ~last.err
    /\ hist.first <= last.version /\ last.version < Latest
    /\ ~Store_VersionExists(st, last.version)
    /\ st.tree.leaves # <<>> /\ st.tree.versions[Latest] # <<>>

\* C6: Set and Delete on a handle from GetImmutable panic and leave every
\* committed version, the working version and LastCommitID as they were.
C6_HandleMutationPanics ==
    /\ [](last.op \in {"HandleSet", "HandleDelete"} => last.panic /\ ~last.changed)
    /\ [][last'.op \in {"HandleSet", "HandleDelete"}
            => \/ st' = st
               \/ /\ st'.tree.leaves = st.tree.leaves
                  /\ Store_LastCommitID(st') = Store_LastCommitID(st)
                  /\ \A h \in VersionInputs :
                        /\ Store_VersionExists(st', h) = Store_VersionExists(st, h)
                        /\ View(Store_GetImmutable(st', h).st)
                             = View(Store_GetImmutable(st, h).st)]_vars

C6_Witness ==
    /\ last.op = "HandleSet" /\ last.panic
    /\ Store_VersionExists(st, last.version) /\ last.version = Latest
    /\ AssertValidKey(last.key) /\ ~last.value.isNil

\* C7: a DeleteVersions whose batch lists a version that does not exist or
\* is the latest returns an error and leaves VersionExists of every version
\* as it was.
C7_DeleteVersionsAllOrNothing ==
    [][last'.op = "DeleteVersions"
         /\ (\E v \in last'.versions : ~Store_VersionExists(st, v) \/ v = Latest)
         => /\ last'.err
            /\ \A w \in VersionInputs :
                  Store_VersionExists(st', w) = Store_VersionExists(st, w)]_vars

C7_Witness ==
    /\ last.op = "DeleteVersions" /\ last.err
    /\ \E v \in last.versions : Store_VersionExists(st, v) /\ v # Latest
    /\ Latest \in last.versions

\* C8: a successful DeleteVersions removes exactly the listed versions:
\* VersionExists becomes false for them and stays for the others, whose
\* views are unchanged; GetImmutable of a removed version is an empty view;
\* the working version and LastCommitID are unchanged.
C8_DeleteVersionsExact ==
    [][last'.op = "DeleteVersions" /\ ~last'.err /\ ~last'.panic
         => /\ \A w \in VersionInputs :
                 /\ Store_VersionExists(st', w)
                      = (Store_VersionExists(st, w) /\ w \notin last'.versions)
                 /\ (w \in last'.versions => EmptyView(Store_GetImmutable(st', w).st))
                 /\ (Store_VersionExists(st', w)
                       => View(Store_GetImmutable(st', w).st)
                            = View(Store_GetImmutable(st, w).st))
            /\ View(st') = View(st)
            /\ Store_LastCommitID(st') = Store_LastCommitID(st)]_vars

C8_Witness ==
    /\ last.op = "DeleteVersions" /\ ~last.err /\ last.versions = {1}
    /\ ~Store_VersionExists(st, 1) /\ Store_VersionExists(st, 2)
    /\ ~EmptyView(Store_GetImmutable(st, 2).st)
    /\ st.tree.leaves # st.tree.versions[2]

\* C9: a /key or /subspace query with height 0 is answered at latest - 1
\* when that version exists and else at latest; one with a non-zero height
\* at that height; the response carries the resolved height.
C9_QueryHeightResolution ==
    last.op = "Query" /\ Len(last.req.Data.data) > 0
        /\ last.req.Path \in {"/key", "/subspace"}
    => /\ (last.req.Height # 0 => last.res.Height = last.req.Height)
       /\ (last.req.Height = 0 /\ Store_VersionExists(st, Latest - 1)
             => last.res.Height = Latest - 1)
       /\ (last.req.Height = 0 /\ ~Store_VersionExists(st, Latest - 1)
             => last.res.Height = Latest)

C9_Witness ==
    /\ last.op = "Query" /\ last.req.Path = "/key" /\ last.req.Height = 0
    /\ Len(last.req.Data.data) > 0
    /\ hist.commits = 2 /\ ~Store_VersionExists(st, Latest - 1)
    /\ last.res.Height = Latest

\* C10: a /key query whose resolved height does not exist returns a normal
\* response without panic: the version-does-not-exist Log, a nil Value, the
\* resolved Height, the request Key and no ProofOps, also with prove set.
C10_QueryMissingVersion ==
    last.op = "Query" /\ Len(last.req.Data.data) > 0 /\ last.req.Path = "/key"
        /\ ~Store_VersionExists(st, getHeight(st.tree, last.req))
    => /\ ~last.panic
       /\ last.res.Code = "OK"
       /\ last.res.Log = ErrVersionDoesNotExist
       /\ last.res.Value = NilBytes
       /\ last.res.Height = getHeight(st.tree, last.req)
       /\ last.res.Key = last.req.Data
       /\ last.res.ProofOps = NoProofOps

C10_Witness ==
    /\ last.op = "Query" /\ last.req.Path = "/key" /\ last.req.Prove
    /\ last.req.Height = 1 /\ Latest = 2 /\ ~Store_VersionExists(st, 1)
    /\ Store_Has(st, last.req.Data)
    /\ last.res.Log = ErrVersionDoesNotExist

\* C11: a /key query with prove set at an existing height answers without
\* panic with exactly one proof op for the request key, bound to the root of
\* the version at that height; it is a membership proof carrying the stored
\* value exactly when that version holds the key, also with a zero-length
\* value, and a non-membership proof exactly when it does not.
C11_ProofAtHeight ==
    last.op = "Query" /\ last.req.Path = "/key" /\ last.req.Prove
        /\ Len(last.req.Data.data) > 0
        /\ Store_VersionExists(st, getHeight(st.tree, last.req))
    => LET h == getHeight(st.tree, last.req)
           at == Store_GetImmutable(st, h).st
           present == Store_Has(at, last.req.Data)
           ops == last.res.ProofOps.Ops
       IN  /\ ~last.panic
           /\ ~last.res.ProofOps.isNil /\ Len(ops) = 1
           /\ ops[1].Key = last.req.Data
           /\ ops[1].Data.key = last.req.Data
           /\ ops[1].Data.root = RootHash(st.tree.versions[h])
           /\ (ops[1].Data.type = "exist") = present
           /\ (ops[1].Data.type = "nonexist") = ~present
           /\ (present => ops[1].Data.value = Store_Get(at, last.req.Data))
           /\ last.res.Value = Store_Get(at, last.req.Data)

C11_Witness ==
    /\ last.op = "Query" /\ last.req.Path = "/key" /\ last.req.Prove
    /\ last.req.Height = 1 /\ Latest = 2
    /\ Store_VersionExists(st, 1)
    /\ st.tree.versions[1] # st.tree.versions[2]
    /\ st.tree.versions[1] # st.tree.leaves
    /\ Store_Get(Store_GetImmutable(st, 1).st, last.req.Data) = Bytes(<<>>)
    /\ ~last.panic
    /\ last.res.ProofOps.Ops[1].Data.type = "exist"

\* C12: a /subspace query returns as Value the encoding of exactly the
\* pairs of the working store whose key starts with the request data, in
\* ascending key order, whatever the requested height; the response has no
\* proof and its Key is the request data.
HasPrefix(k, prefix) ==
    Len(k) >= Len(prefix) /\ SubSeq(k, 1, Len(prefix)) = prefix

C12_SubspaceFromWorkingStore ==
    last.op = "Query" /\ last.req.Path = "/subspace"
        /\ Len(last.req.Data.data) > 0
    => LET Match(l) == HasPrefix(l.key, last.req.Data.data)
           pairs == SelectSeq(st.tree.leaves, Match)
       IN  /\ ~last.panic
           /\ last.res.Value = Bytes(EncodePairs(pairs))
           /\ \A i \in 1..(Len(pairs) - 1) : BytesLess(pairs[i].key, pairs[i + 1].key)
           /\ last.res.ProofOps = NoProofOps
           /\ last.res.Key = last.req.Data
           /\ last.res.Code = "OK"

C12_Witness ==
    /\ last.op = "Query" /\ last.req.Path = "/subspace" /\ last.req.Prove
    /\ last.req.Data = Bytes(<<1>>) /\ last.req.Height = 1
    /\ Store_VersionExists(st, 1) /\ st.tree.versions[1] = <<>>
    /\ Len(st.tree.leaves) = 3
    /\ last.res.Value = Bytes(<<1, 1, 1, 7, 2, 1, 2, 1, 7>>)

\* C13: a Query with empty data returns the malformed-request error for
\* every path, height and prove setting, without panic and with nothing of
\* the store in the response (no resolved height, key, value or proof), and
\* leaves the store as it was.
C13_EmptyDataRejected ==
    /\ [](last.op = "Query" /\ Len(last.req.Data.data) = 0
            => /\ ~last.panic
               /\ last.res.Code = "ErrTxDecode"
               /\ last.res.Height = 0 /\ last.res.Key = NilBytes
               /\ last.res.Value = NilBytes /\ last.res.ProofOps = NoProofOps)
    /\ [][last'.op = "Query" /\ Len(last'.req.Data.data) = 0
            => st' = st /\ hist' = hist]_vars

C13_Witness ==
    /\ last.op = "Query" /\ last.req.Path = "/key" /\ last.req.Data = Bytes(<<>>)
    /\ last.req.Height = 0 /\ last.req.Prove
    /\ Latest = 2 /\ Store_VersionExists(st, 1)
    /\ last.res.Code = "ErrTxDecode"

\* C14: a Query with non-empty data and a path other than "/key" and
\* "/subspace" returns the unknown-request error response, which carries
\* no height, key, value or proof, without panic, and leaves the store as
\* it was.
C14_UnknownPathRejected ==
    /\ [](last.op = "Query" /\ Len(last.req.Data.data) > 0
              /\ last.req.Path \notin {"/key", "/subspace"}
            => ~last.panic /\ last.res = QueryResult("ErrUnknownRequest"))
    /\ [][last'.op = "Query" /\ last'.req.Path \notin {"/key", "/subspace"}
            => st' = st /\ hist' = hist]_vars

C14_Witness ==
    /\ last.op = "Query" /\ last.req.Path = "/store"
    /\ Store_Has(st, last.req.Data) /\ last.req.Height = 1
    /\ Store_VersionExists(st, 1)
    /\ last.res.Code = "ErrUnknownRequest"

\* C15: a Set with a nil, empty or over-long key, or with a nil value,
\* panics and leaves the store as it was: the working version, every
\* committed version and LastCommitID are unchanged, and a Commit after it
\* returns what a Commit instead of it would have returned.
InvalidSetArguments(key, value) ==
    key.isNil \/ Len(key.data) = 0 \/ Len(key.data) > MaxKeyLength \/ value.isNil

C15_InvalidSetAborts ==
    /\ [](last.op = "Set" /\ InvalidSetArguments(last.key, last.value)
            => last.panic /\ ~last.changed)
    /\ [][last'.op = "Set" /\ InvalidSetArguments(last'.key, last'.value)
            => /\ st' = st /\ hist' = hist
               /\ Store_Commit(st', TRUE).cid = Store_Commit(st, TRUE).cid]_vars

C15_Witness ==
    /\ last.op = "Set" /\ last.panic
    /\ last.key = Bytes(<<1, 2, 1>>) /\ ~last.value.isNil
    /\ hist.commits >= 1 /\ st.tree.leaves # st.tree.versions[Latest]

\* C16: neither Set nor Delete passes an invalid key (nil, empty or over
\* the length bound) to the tree: a call with such a key panics in the
\* store before the tree's Set or Remove runs. Delete makes no assertion
\* and hands every key to the tree's Remove, so this is violated.
C16_InvalidKeyNeverReachesTree ==
    last.op \in {"Set", "Delete"}
        /\ (last.key.isNil \/ Len(last.key.data) = 0
              \/ Len(last.key.data) > MaxKeyLength)
    => last.panic

\* C17: a Commit whose save of the working version fails panics and returns
\* no CommitID; LastCommitID, the set of existing versions and what each of
\* them shows are those from before the call.
C17_FailedCommitPanics ==
    /\ [](last.op = "Commit" /\ ~last.saveOk
            => last.panic /\ last.cid = NoCommitID /\ ~last.changed)
    /\ [][last'.op = "Commit" /\ ~last'.saveOk
            => /\ Store_LastCommitID(st') = Store_LastCommitID(st)
               /\ hist' = hist
               /\ \A w \in VersionInputs :
                     /\ Store_VersionExists(st', w) = Store_VersionExists(st, w)
                     /\ View(Store_GetImmutable(st', w).st)
                          = View(Store_GetImmutable(st, w).st)]_vars

C17_Witness ==
    /\ last.op = "Commit" /\ ~last.saveOk /\ last.panic
    /\ hist.commits = 1 /\ Latest = 1
    /\ st.tree.leaves # st.tree.versions[1]
    /\ Store_LastCommitID(st).Hash = RootHash(st.tree.versions[1])

\* C18: Export of a version fails, returning an error and no exporter,
\* exactly when the version does not exist (never committed, or pruned),
\* and returns an exporter without panic when it exists. GetImmutable gives
\* an empty tree and no error for a missing version, so Export returns an
\* exporter of that tree (or the tree's Export panics): this is violated.
C18_ExportMissingVersionFails ==
    last.op = "Export"
    => /\ (~Store_VersionExists(st, last.version)
             => last.err /\ ~last.panic /\ last.nodes = <<>>)
       /\ (Store_VersionExists(st, last.version) => ~last.err /\ ~last.panic)

\* C19 as claimed: Import on a handle from GetImmutable panics. The code
\* returns an error instead, so this is violated.
C19_HandleImportPanics ==
    last.op = "HandleImport" => last.panic

\* C19: Import on a handle from GetImmutable returns an error and no
\* importer without panic, whatever version the handle is of, and leaves
\* the store as it was.
C19_HandleImportFails ==
    /\ [](last.op = "HandleImport"
            => last.err /\ ~last.panic /\ last.importer = NoImporter
               /\ ~last.changed)
    /\ [][last'.op = "HandleImport" => st' = st /\ hist' = hist]_vars

C19_Witness ==
    /\ last.op = "HandleImport" /\ last.err
    /\ ~Store_VersionExists(st, last.version)
    /\ last.handle.tree = EmptyImmutableTree
    /\ hist.commits >= 1

\* C20: for a version that exists, exporting it and importing every
\* exported node into a fresh empty store at that version succeeds and
\* gives a store whose LastCommitID is that version with the source's hash
\* of it and which holds the keys and values of that version.
C20_ExportImportRoundTrip ==
    last.op = "ExportImport" /\ Store_VersionExists(st, last.version)
    => LET source == Store_GetImmutable(st, last.version).st
       IN  /\ ~last.err
           /\ Store_LastCommitID(last.handle)
                = [Version |-> last.version,
                   Hash |-> Store_LastCommitID(source).Hash]
           /\ View(last.handle) = View(source)
           /\ last.handle.tree.leaves = st.tree.versions[last.version]

C20_Witness ==
    /\ last.op = "ExportImport" /\ ~last.err
    /\ last.version = 1 /\ Latest = 2
    /\ Len(st.tree.versions[1]) = 3 /\ Len(last.nodes) = 5
    /\ st.tree.versions[2] # st.tree.versions[1]
    /\ st.tree.leaves # st.tree.versions[1]
    /\ Len(last.handle.tree.leaves) = 3

C22_ReaderUnaffectedByWriter ==
    reader.open
    => /\ \A k \in ReaderKeys :
            /\ Store_Get(Deref(reader.handle), k) = reader.first[k]
            /\ (reader.existed
                  => reader.first[k] = Tree_GetVersioned(st.tree, k, reader.version))
            /\ (~reader.existed => reader.first[k] = NilBytes)
       /\ (~reader.key.isNil => reader.got = reader.first[reader.key])
       /\ (Live => /\ \A k \in ReaderKeys : ENABLED Set(k, Bytes(<<7>>))
                   /\ \A k \in ReaderKeys : ENABLED Delete(k)
                   /\ (hist.commits < MaxCommits => ENABLED Commit(TRUE)))

C22_Witness ==
    /\ reader.open /\ reader.existed /\ reader.version = 1 /\ Latest = 2
    /\ reader.key = Bytes(<<1>>) /\ reader.got = Bytes(<<7>>)
    /\ Store_Get(st, reader.key) = NilBytes
    /\ Store_Get(Store_GetImmutable(st, 2).st, reader.key) = NilBytes
    /\ last.op = "Set" /\ last.changed

\* C23: Iterator(start, end) yields exactly the pairs of the working
\* version with start <= key < end (a nil bound being open), each once, in
\* ascending key order; ReverseIterator(start, end) yields the same pairs
\* in descending key order; a key equal to end is not yielded.
C23_IteratorRange ==
    last.op \in {"Iterator", "ReverseIterator"}
    => LET pairs == last.pairs
           InRange(k) ==
               /\ (last.start.isNil \/ k = last.start.data
                      \/ BytesLess(last.start.data, k))
               /\ (last.end.isNil \/ BytesLess(k, last.end.data))
           wanted == {i \in 1..Len(st.tree.leaves) : InRange(st.tree.leaves[i].key)}
       IN  /\ {pairs[i] : i \in 1..Len(pairs)} = {st.tree.leaves[i] : i \in wanted}
           /\ Len(pairs) = Cardinality(wanted)
           /\ \A i \in 1..Len(pairs) : last.end.isNil \/ pairs[i].key # last.end.data
           /\ \A i \in 1..(Len(pairs) - 1) :
                 IF last.op = "Iterator"
                 THEN BytesLess(pairs[i].key, pairs[i + 1].key)
                 ELSE BytesLess(pairs[i + 1].key, pairs[i].key)
           /\ Store_Iterator(st, last.start, last.end)
                = [i \in 1..Len(pairs) |->
                     IF last.op = "Iterator" THEN pairs[i]
                     ELSE pairs[Len(pairs) + 1 - i]]

C23_Witness ==
    /\ last.op = "ReverseIterator"
    /\ last.start = Bytes(<<1>>) /\ last.end = Bytes(<<2>>)
    /\ Len(st.tree.leaves) = 3
    /\ Len(last.pairs) = 2 /\ last.pairs[1].key = <<1, 2>> /\ last.pairs[2].key = <<1>>

\* C24: SetInitialVersion(v) never changes LastCommitID; on a store with no
\* committed version and v > 0 it makes the next Commit return version v;
\* on a store with a committed version the next Commit still returns the
\* latest version plus one, then and in every later state.
C24_InitialVersionOnlyBeforeCommit ==
    /\ [](hist.commits >= 1 => Store_Commit(st, TRUE).cid.Version = Latest + 1)
    /\ [][last'.op = "SetInitialVersion"
            => /\ ~last'.panic
               /\ Store_LastCommitID(st') = Store_LastCommitID(st)
               /\ (hist.commits = 0 /\ last'.version > 0
                     => Store_Commit(st', TRUE).cid.Version = last'.version)
               /\ (hist.commits >= 1
                     => Store_Commit(st', TRUE).cid.Version = Latest + 1)]_vars

C24_Witness ==
    /\ last.op = "SetInitialVersion" /\ last.version = 2 /\ last.changed
    /\ hist.commits = 2 /\ hist.first = 1 /\ Latest = 2
    /\ Store_Commit(st, TRUE).cid.Version = 3

\* C25: a /key query never panics, and it answers with a value lookup and
\* no Log (and, with prove set, with one proof op) exactly when
\* VersionExists of its resolved height is true, else with the Log and
\* neither value nor proof; a VersionExists call returns true exactly for
\* the heights such a query answers without Log.
C25_VersionExistsAgreesWithQuery ==
    /\ (last.op = "Query" /\ last.req.Path = "/key" /\ Len(last.req.Data.data) > 0
          => LET h == getHeight(st.tree, last.req)
                 exists == Store_VersionExists(st, h)
             IN  /\ ~last.panic
                 /\ (last.res.Log = "") = exists
                 /\ (exists
                       => /\ last.res.Value
                              = Store_Get(Store_GetImmutable(st, h).st, last.req.Data)
                          /\ (last.req.Prove => ~last.res.ProofOps.isNil
                                                 /\ Len(last.res.ProofOps.Ops) = 1)
                          /\ (~last.req.Prove => last.res.ProofOps = NoProofOps))
                 /\ (~exists
                       => last.res.Value = NilBytes /\ last.res.ProofOps = NoProofOps))
    /\ (last.op = "VersionExists" /\ last.version # 0
          => \A k \in ReaderKeys, prove \in BOOLEAN :
                LET r == Store_Query(st, [Path |-> "/key", Data |-> k,
                                          Height |-> last.version, Prove |-> prove])
                IN  ~r.panic /\ (last.bool = (r.res.Log = "")))

C25_Witness ==
    /\ last.op = "Query" /\ last.req.Path = "/key" /\ last.req.Prove
    /\ last.req.Height = 2 /\ Latest = 3
    /\ ~Store_VersionExists(st, 1) /\ Store_VersionExists(st, 2)
    /\ Store_Has(Store_GetImmutable(st, 2).st, last.req.Data)
    /\ ~Store_Has(st, last.req.Data)
    /\ last.res.Log = "" /\ Len(last.res.ProofOps.Ops) = 1

\* C26 as claimed: on a store with no commit, a /key query with height 0
\* returns the working version's value of the key. The height resolves to
\* 0, a version that does not exist, so this is violated.
C26_ZeroCommitQueryReadsWorking ==
    last.op = "Query" /\ last.req.Path = "/key" /\ last.req.Height = 0
        /\ Len(last.req.Data.data) > 0 /\ hist.commits = 0
    => last.res.Value = Store_Get(st, last.req.Data)

\* C26: on a store with no commit, a /key query with height 0 resolves to
\* height 0 and returns the version-does-not-exist Log with a nil value and
\* no proof, also for a key that Set wrote to the working version.
C26_ZeroCommitQueryNoVersion ==
    last.op = "Query" /\ last.req.Path = "/key" /\ last.req.Height = 0
        /\ Len(last.req.Data.data) > 0 /\ hist.commits = 0
    => /\ ~last.panic
       /\ last.res.Height = 0
       /\ last.res.Log = ErrVersionDoesNotExist
       /\ last.res.Value = NilBytes
       /\ last.res.ProofOps = NoProofOps

C26_Witness ==
    /\ last.op = "Query" /\ last.req.Path = "/key" /\ last.req.Height = 0
    /\ hist.commits = 0 /\ Latest = 0
    /\ Store_Get(st, last.req.Data) = Bytes(<<7>>)
    /\ last.res.Value = NilBytes

C28_QueryRaceTwoOutcomes ==
    inflight.pc = "done"
    => /\ ~inflight.panic
       /\ \/ /\ inflight.res.Log = ErrVersionDoesNotExist
             /\ inflight.res.Value = NilBytes
             /\ inflight.res.ProofOps = NoProofOps
          \/ /\ inflight.res.Log = ""
             /\ inflight.res.Value = inflight.expect
             /\ (inflight.req.Prove => Len(inflight.res.ProofOps.Ops) = 1)
=============================================================================
